---- MODULE Spec2Model ----
(***************************************************************************)
(* A model of redistore.go: a gorilla/sessions store that keeps the       *)
(* session payload in redis under keyPrefix+ID and hands the client a     *)
(* signed cookie holding SessionInfo{ID, CreateTime}.                     *)
(*                                                                         *)
(* Go values (interface{}) are records [t |-> type, v |-> number]; the     *)
(* string GoStr(n) is the text time.Now().Format("20060102150405") yields    *)
(* in second n.  A JSON document is a function from member names to JSON   *)
(* values [t |-> "null" | "string" | "number", v |-> number].              *)
(***************************************************************************)
EXTENDS Integers, Sequences, FiniteSets, TLC

\* ---------------------------------------------------------------- bounds
MaxTime == 1        \* the clock runs over 0..MaxTime seconds
MaxCalls == 1       \* setter calls and application writes
MaxSaves == 2       \* Saves begun where two requests race

Reqs == {"r1"}      \* the requests being handled

\* ------------------------------------------------------ program constants
sessionExpire == 86400 * 3000
codecMaxAge == 86400 * 30
defaultMaxLength == 4096
DefaultMaxAge == 60 * 20
keyPrefix == "session_"
CookieName == "session-name"
TimeLayoutLen == 14

\* ------------------------------------------------------------------ errors
NoErr == "nil"
ErrTransport == "redis: transport error"
ErrRedisNil == "redis: nil"
ErrTooBig == "SessionStore: the value to store is too big"
ErrNonStringKey == "Non-string key value, cannot serialize session to JSON"
ErrNoCodecs == "securecookie: no codecs provided"
ErrDecode == "securecookie: the value is not valid"
ErrExpired == "securecookie: expired timestamp"

\* ------------------------------------------------------------- Go values
Nil == [t |-> "nil", v |-> 0]
GoStr(n) == [t |-> "string", v |-> n]
GoInt(n) == [t |-> "int", v |-> n]
GoFloat(n) == [t |-> "float64", v |-> n]

StrKey(s) == [t |-> "string", v |-> s]
IntKey == [t |-> "int", v |-> "7"]
CreatedTimeKey == StrKey("created_time")
AKey == StrKey("a")

EmptyValues == [k \in {} |-> Nil]
EmptyData == [n \in {} |-> Nil]
EmptyDoc == [n \in {} |-> [t |-> "null", v |-> 0]]

\* session.Values[k]: a map read yields nil for a key that is not there
Lookup(Values, k) == IF k \in DOMAIN Values THEN Values[k] ELSE Nil

\* --------------------------------------------------------- JSONSerializer
\* json.Marshal of one value: int and float64 both become a JSON number
Marshal(x) ==
    CASE x.t = "nil" -> [t |-> "null", v |-> 0]
      [] x.t = "string" -> [t |-> "string", v |-> x.v]
      [] OTHER -> [t |-> "number", v |-> x.v]

\* json.Unmarshal into interface{}: every JSON number comes back a float64
Unmarshal(j) ==
    CASE j.t = "null" -> Nil
      [] j.t = "string" -> GoStr(j.v)
      [] OTHER -> GoFloat(j.v)

SerializeData(data) ==
    [err |-> NoErr, b |-> [n \in DOMAIN data |-> Marshal(data[n])]]

Serialize(Values) ==
    IF \E k \in DOMAIN Values : k.t # "string"
    THEN [err |-> ErrNonStringKey, b |-> EmptyDoc]
    ELSE SerializeData([n \in {k.v : k \in DOMAIN Values} |-> Values[StrKey(n)]])

DeserializeData(d) == [n \in DOMAIN d |-> Unmarshal(d[n])]

\* Deserialize copies every decoded member into ss.Values
Deserialize(d, Values) ==
    LET m == DeserializeData(d)
    IN  [k \in DOMAIN Values \cup {StrKey(n) : n \in DOMAIN m} |->
            IF k.t = "string" /\ k.v \in DOMAIN m THEN m[k.v] ELSE Values[k]]

\* len(b) of the marshalled document: {"name":value,...}
ValLen(j) ==
    CASE j.t = "null" -> 4
      [] j.t = "string" -> TimeLayoutLen + 2
      [] OTHER -> 1

RECURSIVE MembersLen(_, _)
MembersLen(d, S) ==
    IF S = {} THEN 0
    ELSE LET n == CHOOSE x \in S : TRUE
         IN  Len(n) + 3 + ValLen(d[n]) + MembersLen(d, S \ {n})

BytesLen(d) ==
    2 + MembersLen(d, DOMAIN d)
      + (IF DOMAIN d = {} THEN 0 ELSE Cardinality(DOMAIN d) - 1)

\* ------------------------------------------------------------ securecookie
\* A cookie value is "" (the empty sequence) or one token: the envelope
\* SessionInfo{ID, CreateTime} signed for a cookie name under a key at time ts.
SessionInfo(id, ct) == [ID |-> id, CreateTime |-> ct]
NoInfo == SessionInfo("", Nil)

EncodeMulti(name, info, cs, t) ==
    IF cs = <<>>
    THEN [err |-> ErrNoCodecs, value |-> <<>>]
    ELSE [err |-> NoErr,
          value |-> <<[name |-> name, key |-> cs[1].key, ts |-> t,
                       info |-> info]>>]

\* one codec: the MAC must verify under its key and name, then the timestamp
\* must not be older than maxAge (0 switches the age check off)
DecodeOne(name, tok, c, t) ==
    IF tok.name # name \/ tok.key # c.key THEN ErrDecode
    ELSE IF c.maxAge # 0 /\ tok.ts < t - c.maxAge THEN ErrExpired
    ELSE NoErr

DecodeMulti(name, value, cs, t) ==
    IF cs = <<>> THEN [err |-> ErrNoCodecs, info |-> NoInfo]
    ELSE IF value = <<>> THEN [err |-> ErrDecode, info |-> NoInfo]
    ELSE IF \E i \in 1..Len(cs) : DecodeOne(name, value[1], cs[i], t) = NoErr
         THEN [err |-> NoErr, info |-> value[1].info]
         ELSE [err |-> DecodeOne(name, value[1], cs[Len(cs)], t), info |-> NoInfo]

\* sessions.NewCookie: the cookie carries the options' MaxAge as it is
NewCookie(name, value, options) ==
    [present |-> TRUE, Name |-> name, Value |-> value, MaxAge |-> options.MaxAge]
NoCookie == [present |-> FALSE, Name |-> CookieName, Value |-> <<>>, MaxAge |-> 0]

\* ------------------------------------------------------------------- state
VARIABLES
    now,         \* the wall clock, in seconds
    remote,      \* redis: key -> record (present, data, expiry time)
    maxLength,   \* RediStore.maxLength
    Options,     \* RediStore.Options, the default configuration
    Codecs,      \* RediStore.Codecs, each with its key and enforced maxAge
    open,        \* open[r]: request r holds a session returned by New
    session,     \* session[r]: the sessions.Session of request r
    jar,         \* the cookie value the client holds, if any: {} or {value}
    res,         \* what the last store call was given and what it returned
    used,        \* setter calls and application writes so far
    saved,       \* history: the last successful Save whose record still stands
    pc,          \* pc[r]: where request r stands inside a Save taken step by step
    setting,     \* where a SetMaxAge taken step by step stands
    hist         \* history: whose set came last, and the cookie each request got

vars == <<now, remote, maxLength, Options, Codecs, open, session,
          jar, res, used, saved, pc, setting, hist>>

\* what a call that runs in one piece leaves alone
calls == <<pc, setting, hist>>

\* the session IDs in play: a session that has none has the ID ""
SessionIDs == {"ID1"}
IDs == {""} \cup SessionIDs
Key(id) == keyPrefix \o id

\* ------------------------------------------------------------ redis.Cmdable
Absent == [present |-> FALSE, data |-> EmptyDoc, exp |-> 0]

\* When a key written at t with time to live ttl expires: 0 is never.  The
\* clock stops at MaxTime, so every later expiry is the same one, MaxTime + 1.
ExpireAt(t, ttl) ==
    IF ttl = 0 THEN 0 ELSE IF t + ttl > MaxTime THEN MaxTime + 1 ELSE t + ttl

\* mutant: the members the key's document had and the new one lacks stay
Set_KeepMembers(rem, key, b, ttl, t) ==
    [rem EXCEPT ![key] = [present |-> TRUE, data |-> b @@ rem[key].data,
                          exp |-> ExpireAt(t, ttl)]]

\* SET key b EX ttl: an unconditional overwrite; expiration 0 keeps the key
Set(rem, key, b, ttl, t) ==
    [rem EXCEPT ![key] = [present |-> TRUE, data |-> b, exp |-> ExpireAt(t, ttl)]]

\* DEL key: removing a key that is not there is not an error
Del(rem, key) == [rem EXCEPT ![key] = Absent]

\* redis drops a key once its time to live has run out
Expire(rem, t) ==
    [k \in DOMAIN rem |->
        IF rem[k].present /\ rem[k].exp # 0 /\ rem[k].exp <= t
        THEN Absent ELSE rem[k]]

\* ----------------------------------------------------------------- load
\* mutant: redis.Nil is passed on as an error instead of "not found"
load_NilIsError(rem, s, fail) ==
    IF fail THEN [ok |-> FALSE, err |-> ErrTransport, Values |-> s.Values]
    ELSE IF ~rem[Key(s.ID)].present
    THEN [ok |-> FALSE, err |-> ErrRedisNil, Values |-> s.Values]
    ELSE [ok |-> TRUE, err |-> NoErr,
          Values |-> Deserialize(rem[Key(s.ID)].data, s.Values)]

\* mutant: every error of the get is taken for "not found"
load_SwallowErr(rem, s, fail) ==
    IF fail \/ ~rem[Key(s.ID)].present
    THEN [ok |-> FALSE, err |-> NoErr, Values |-> s.Values]
    ELSE [ok |-> TRUE, err |-> NoErr,
          Values |-> Deserialize(rem[Key(s.ID)].data, s.Values)]

load(rem, s, fail) ==
    IF fail THEN [ok |-> FALSE, err |-> ErrTransport, Values |-> s.Values]
    ELSE IF ~rem[Key(s.ID)].present
    THEN [ok |-> FALSE, err |-> NoErr, Values |-> s.Values]
    ELSE [ok |-> TRUE, err |-> NoErr,
          Values |-> Deserialize(rem[Key(s.ID)].data, s.Values)]

\* ------------------------------------------------------------------ New
\* mutant: the creation timestamps are not compared
IsStale_Never(Values, info) == FALSE

\* createdTimeV != sessionInfo.CreateTime
IsStale(Values, info) == Lookup(Values, CreatedTimeKey) # info.CreateTime

\* mutant: a cookie that does not decode is passed over in silence
NewSession_SwallowDecodeErr(c, rem, opts, cs, t, fail) ==
    LET session0 == [ID |-> "", Values |-> EmptyValues, Options |-> opts,
                     IsNew |-> TRUE]
        dec == DecodeMulti(CookieName, c.Value, cs, t)
    IN  IF ~c.present \/ dec.err # NoErr
        THEN [session |-> session0, err |-> NoErr, gets |-> <<>>]
        ELSE LET s1 == [session0 EXCEPT !.ID = dec.info.ID]
                 ld == load(rem, s1, fail)
                 s2 == [s1 EXCEPT !.Values = ld.Values]
             IN  [session |-> [s2 EXCEPT
                      !.Values = IF ld.ok /\ IsStale(s2.Values, dec.info)
                                 THEN EmptyValues ELSE @,
                      !.IsNew = ~ld.ok \/ IsStale(s2.Values, dec.info)],
                  err |-> ld.err, gets |-> <<Key(s1.ID)>>]

\* gets: the keys New asked redis for
NewSession(c, rem, opts, cs, t, fail) ==
    LET session0 == [ID |-> "", Values |-> EmptyValues, Options |-> opts,
                     IsNew |-> TRUE]
        dec == DecodeMulti(CookieName, c.Value, cs, t)
    IN  IF ~c.present THEN [session |-> session0, err |-> NoErr, gets |-> <<>>]
        ELSE IF dec.err # NoErr
        THEN [session |-> session0, err |-> dec.err, gets |-> <<>>]
        ELSE LET s1 == [session0 EXCEPT !.ID = dec.info.ID]
                 ld == load(rem, s1, fail)
                 s2 == [s1 EXCEPT !.Values = ld.Values]
                 gets == <<Key(s1.ID)>>
             IN  IF ld.err = NoErr /\ ld.ok
                 THEN IF IsStale(s2.Values, dec.info)
                      THEN [session |-> [s2 EXCEPT !.Values = EmptyValues,
                                                   !.IsNew = TRUE],
                            err |-> ld.err, gets |-> gets]
                      ELSE [session |-> [s2 EXCEPT !.IsNew = FALSE],
                            err |-> ld.err, gets |-> gets]
                 ELSE [session |-> [s2 EXCEPT !.IsNew = ~(ld.err = NoErr /\ ld.ok)],
                       err |-> ld.err, gets |-> gets]

\* ----------------------------------------------------------------- save
\* mutant: the length is not checked
TooBig_Never(b, maxLen) == FALSE

TooBig(b, maxLen) == maxLen # 0 /\ BytesLen(b) > maxLen

\* mutant: the record always gets the default time to live
Age_Default(s) == DefaultMaxAge

Age(s) == IF s.Options.MaxAge = 0 THEN DefaultMaxAge ELSE s.Options.MaxAge

\* mutant: the record is set before the size of the document is checked
save_SetBeforeCheck(rem, s, maxLen, t, fail) ==
    LET ser == Serialize(s.Values)
        call == [key |-> Key(s.ID), b |-> ser.b, ttl |-> Age(s)]
    IN  IF ser.err # NoErr
        THEN [err |-> ser.err, remote |-> rem, sets |-> <<>>]
        ELSE IF fail
        THEN [err |-> ErrTransport, remote |-> rem, sets |-> <<call>>]
        ELSE IF TooBig(ser.b, maxLen)
        THEN [err |-> ErrTooBig,
              remote |-> Set(rem, call.key, call.b, call.ttl, t),
              sets |-> <<call>>]
        ELSE [err |-> NoErr, remote |-> Set(rem, call.key, call.b, call.ttl, t),
              sets |-> <<call>>]

save(rem, s, maxLen, t, fail) ==
    LET ser == Serialize(s.Values)
        call == [key |-> Key(s.ID), b |-> ser.b, ttl |-> Age(s)]
    IN  IF ser.err # NoErr
        THEN [err |-> ser.err, remote |-> rem, sets |-> <<>>]
        ELSE IF TooBig(ser.b, maxLen)
        THEN [err |-> ErrTooBig, remote |-> rem, sets |-> <<>>]
        ELSE IF fail
        THEN [err |-> ErrTransport, remote |-> rem, sets |-> <<call>>]
        ELSE [err |-> NoErr, remote |-> Set(rem, call.key, call.b, call.ttl, t),
              sets |-> <<call>>]

\* --------------------------------------------------------------- delete
delete(rem, s, fail) ==
    IF fail THEN [err |-> ErrTransport, remote |-> rem]
    ELSE [err |-> NoErr, remote |-> Del(rem, Key(s.ID))]

\* ----------------------------------------------------------------- Save
\* mutant: only a negative max-age marks the session for deletion
MarkedForDeletion_Negative(s) == s.Options.MaxAge < 0

MarkedForDeletion(s) == s.Options.MaxAge <= 0

\* time.Now().Format("20060102150405")
Stamp(t) == GoStr(t)

\* the session once Save has given it an ID and a created_time, where it
\* had none
\* mutant: every Save stamps created_time anew
Prepare_Restamp(s, newID, t) ==
    LET s1 == IF s.ID = "" THEN [s EXCEPT !.ID = newID] ELSE s
    IN  [s1 EXCEPT !.Values = (CreatedTimeKey :> Stamp(t)) @@ @]

Prepare(s, newID, t) ==
    LET s1 == IF s.ID = "" THEN [s EXCEPT !.ID = newID] ELSE s
    IN  IF CreatedTimeKey \in DOMAIN s1.Values THEN s1
        ELSE [s1 EXCEPT !.Values = (CreatedTimeKey :> Stamp(t)) @@ @]

\* mutant: the cookie is set as soon as the record is written, whether or
\* not the envelope could be encoded
SaveResult_CookieBeforeEncode(rem, s, maxLen, cs, t, newID, fail) ==
    IF MarkedForDeletion(s)
    THEN LET d == delete(rem, s, fail)
         IN  [err |-> d.err, remote |-> d.remote, session |-> s,
              sets |-> <<>>, dels |-> <<Key(s.ID)>>,
              attached |-> d.err = NoErr,
              cookie |-> NewCookie(CookieName, <<>>, s.Options),
              generated |-> FALSE]
    ELSE LET s2 == Prepare(s, newID, t)
             createdTime == s2.Values[CreatedTimeKey]
             sv == save(rem, s2, maxLen, t, fail)
             enc == EncodeMulti(CookieName, SessionInfo(s2.ID, createdTime), cs, t)
             err == IF sv.err # NoErr THEN sv.err ELSE enc.err
         IN  [err |-> err, remote |-> sv.remote, session |-> s2,
              sets |-> sv.sets, dels |-> <<>>,
              attached |-> sv.err = NoErr,
              cookie |-> NewCookie(CookieName, enc.value, s2.Options),
              generated |-> s.ID = ""]

SaveResult(rem, s, maxLen, cs, t, newID, fail) ==
    IF MarkedForDeletion(s)
    THEN LET d == delete(rem, s, fail)
         IN  [err |-> d.err, remote |-> d.remote, session |-> s,
              sets |-> <<>>, dels |-> <<Key(s.ID)>>,
              attached |-> d.err = NoErr,
              cookie |-> NewCookie(CookieName, <<>>, s.Options),
              generated |-> FALSE]
    ELSE LET s2 == Prepare(s, newID, t)
             createdTime == s2.Values[CreatedTimeKey]
             sv == save(rem, s2, maxLen, t, fail)
             enc == EncodeMulti(CookieName, SessionInfo(s2.ID, createdTime), cs, t)
             err == IF sv.err # NoErr THEN sv.err ELSE enc.err
         IN  [err |-> err, remote |-> sv.remote, session |-> s2,
              sets |-> sv.sets, dels |-> <<>>,
              attached |-> err = NoErr,
              cookie |-> NewCookie(CookieName, enc.value, s2.Options),
              generated |-> s.ID = ""]

\* --------------------------------------------------------------- Delete
\* mutant: the cookie and the payload are cleared whatever the delete returned
DeleteResult_AlwaysClear(rem, s, fail) ==
    [err |-> IF fail THEN ErrTransport ELSE NoErr,
     remote |-> IF fail THEN rem ELSE Del(rem, Key(s.ID)),
     session |-> [s EXCEPT !.Values = EmptyValues],
     attached |-> TRUE,
     cookie |-> NewCookie(CookieName, <<>>, [s.Options EXCEPT !.MaxAge = -1])]

\* mutant: deleting a key that is not there is reported as an error
DeleteResult_ErrOnAbsent(rem, s, fail) ==
    IF fail \/ ~rem[Key(s.ID)].present
    THEN [err |-> IF fail THEN ErrTransport ELSE ErrRedisNil, remote |-> rem,
          session |-> s, attached |-> FALSE, cookie |-> NoCookie]
    ELSE [err |-> NoErr, remote |-> Del(rem, Key(s.ID)),
          session |-> [s EXCEPT !.Values = EmptyValues],
          attached |-> TRUE,
          cookie |-> NewCookie(CookieName, <<>>, [s.Options EXCEPT !.MaxAge = -1])]

DeleteResult(rem, s, fail) ==
    IF fail
    THEN [err |-> ErrTransport, remote |-> rem, session |-> s,
          attached |-> FALSE, cookie |-> NoCookie]
    ELSE [err |-> NoErr, remote |-> Del(rem, Key(s.ID)),
          session |-> [s EXCEPT !.Values = EmptyValues],
          attached |-> TRUE,
          cookie |-> NewCookie(CookieName, <<>>, [s.Options EXCEPT !.MaxAge = -1])]

\* ---------------------------------------------------------------- Store
StoreResult(rem, id, data, maxLen, t, fail) ==
    LET ser == SerializeData(data)
        call == [key |-> Key(id), b |-> ser.b, ttl |-> sessionExpire]
    IN  IF TooBig(ser.b, maxLen)
        THEN [err |-> ErrTooBig, remote |-> rem, sets |-> <<>>]
        ELSE IF fail
        THEN [err |-> ErrTransport, remote |-> rem, sets |-> <<call>>]
        ELSE [err |-> NoErr, remote |-> Set(rem, call.key, call.b, call.ttl, t),
              sets |-> <<call>>]

\* ----------------------------------------------------------------- Load
\* data *map[string]interface{}: a nil pointer, or a pointer to a map
NilDest == [usable |-> FALSE, data |-> EmptyData]
Dest(m) == [usable |-> TRUE, data |-> m]

\* mutant: a key that is not there is reported as the error redis.Nil
LoadResult_NilIsError(rem, id, dest, fail) ==
    IF fail THEN [found |-> FALSE, err |-> ErrTransport, dest |-> dest]
    ELSE IF ~rem[Key(id)].present
    THEN [found |-> FALSE, err |-> ErrRedisNil, dest |-> dest]
    ELSE IF ~dest.usable THEN [found |-> FALSE, err |-> NoErr, dest |-> dest]
    ELSE [found |-> TRUE, err |-> NoErr,
          dest |-> Dest(DeserializeData(rem[Key(id)].data) @@ dest.data)]

\* json.Unmarshal into a map adds the document's members to those it holds
LoadResult(rem, id, dest, fail) ==
    IF fail THEN [found |-> FALSE, err |-> ErrTransport, dest |-> dest]
    ELSE IF ~rem[Key(id)].present
    THEN [found |-> FALSE, err |-> NoErr, dest |-> dest]
    ELSE IF ~dest.usable THEN [found |-> FALSE, err |-> NoErr, dest |-> dest]
    ELSE [found |-> TRUE, err |-> NoErr,
          dest |-> Dest(DeserializeData(rem[Key(id)].data) @@ dest.data)]

\* ------------------------------------------------------------ construction
\* how many key pairs NewRedisStoreWithPool may be given
KeyPairCounts == {0, 1}

\* securecookie.CodecsFromPairs: one codec per key pair, each with the
\* library's default maxAge
CodecsFromPairs(n) == [i \in 1..n |-> [key |-> "k" \o ToString(i), maxAge |-> codecMaxAge]]

BlankSession ==
    [ID |-> "", Values |-> EmptyValues, Options |-> [Path |-> "/", MaxAge |-> 0],
     IsNew |-> TRUE]

\* res.cookie: the cookie of the request (New); res.setCookie: the cookie
\* the call set on the response, when res.attached
\* res.gets, res.sets, res.dels: the redis commands the call issued
\* res.found, res.given, res.dest: what Load returned, the destination it
\* was given and the destination as it left it
\* res.fail: the call's redis command met a transport failure; res.again:
\* the call before it was a Delete that returned no error
NoRes ==
    [op |-> "none", r |-> "", fail |-> FALSE, err |-> NoErr, cookie |-> NoCookie,
     gets |-> <<>>, sets |-> <<>>, dels |-> <<>>, attached |-> FALSE,
     setCookie |-> NoCookie, generated |-> FALSE, again |-> FALSE,
     found |-> FALSE, given |-> NilDest, dest |-> NilDest]

\* no Save stands: none succeeded yet, or its record was written over,
\* deleted or expired since
NoSaved == [ok |-> FALSE, ID |-> "", Values |-> EmptyValues, value |-> <<>>]

\* the standing Save is forgotten once its record changes
Standing(sv, rem, rem2) ==
    IF sv.ok /\ rem2[Key(sv.ID)] # rem[Key(sv.ID)] THEN NoSaved ELSE sv

\* no SetMaxAge is under way
NotSetting == [v |-> 0, next |-> 0]

\* no set has been issued and no cookie handed out.  lastSet: the request
\* whose set redis executed last; stamped: the requests whose Save stamped a
\* created_time of its own; written[r]: the set r's Save issued;
\* issued[r]: the cookie value r's Save set on the response
\* begun: the Saves begun so far
NoHist ==
    [lastSet |-> "", stamped |-> {}, written |-> <<>>, issued |-> <<>>,
     begun |-> 0]

Init ==
    /\ now = 0
    /\ remote = [k \in {Key(id) : id \in IDs} |-> Absent]
    /\ maxLength = defaultMaxLength
    /\ Options = [Path |-> "/", MaxAge |-> sessionExpire]
    /\ Codecs \in {CodecsFromPairs(n) : n \in KeyPairCounts}
    /\ open = [r \in Reqs |-> FALSE]
    /\ session = [r \in Reqs |-> BlankSession]
    /\ jar = {}
    /\ res = NoRes
    /\ used = 0
    /\ saved = NoSaved
    /\ pc = [r \in Reqs |-> "idle"]
    /\ setting = NotSetting
    /\ hist = NoHist

\* ------------------------------------------------------------------ inputs
\* the cookies a client can present: none, or one it holds
Inbound == {NoCookie} \cup {NewCookie(CookieName, v, [MaxAge |-> 0]) : v \in jar}

\* What the client may hold after a response: a client keeps one cookie of
\* a name.  It may ignore the response's cookie (a replaying client does); a
\* cookie with a negative max-age makes an obedient client drop what it
\* holds; any other cookie's value replaces what it holds.
Receive(j, attached, c) ==
    {j} \cup
    (IF ~attached THEN {}
     ELSE IF c.MaxAge < 0 THEN {{}}
     ELSE {{c.Value}})

\* what the application writes into session.Values
MutateArgs ==
    {<<CreatedTimeKey, Nil>>, <<CreatedTimeKey, GoInt(1)>>, <<AKey, GoInt(1)>>,
     <<IntKey, Nil>>}

\* what the application sets session.Options.MaxAge to
SessionMaxAges == {-1, 0, 1}

SetMaxLengthArgs == {-1, 0, 32}
SetMaxAgeArgs == {0, 1}
StoreArgs == {("a" :> GoInt(1))}
StoreIDs == SessionIDs

\* base32 of securecookie.GenerateRandomKey(32): an ID nothing refers to yet.
\* An ID that no record, session or cookie mentions any more is as good as
\* one never handed out.
InUse ==
    {id \in SessionIDs : \/ remote[Key(id)].present
                         \/ \E r \in DOMAIN session : session[r].ID = id
                         \/ \E v \in jar : v # <<>> /\ v[1].info.ID = id}
FreshIDs == SessionIDs \ InUse

\* ----------------------------------------------------------------- actions
New(r, c, fail) ==
    /\ fail => (c.present /\ DecodeMulti(CookieName, c.Value, Codecs, now).err = NoErr)
    /\ LET n == NewSession(c, remote, Options, Codecs, now, fail)
       IN  /\ session' = [session EXCEPT ![r] = n.session]
           /\ res' = [NoRes EXCEPT !.op = "New", !.r = r, !.fail = fail,
                                   !.err = n.err, !.cookie = c,
                                   !.gets = n.gets]
    /\ open' = [open EXCEPT ![r] = TRUE]
    /\ UNCHANGED <<now, remote, maxLength, Options, Codecs, jar, used, saved>>
    /\ UNCHANGED calls

Save(r, newID, fail) ==
    /\ open[r]
    /\ LET sv == SaveResult(remote, session[r], maxLength, Codecs, now,
                            newID, fail)
       IN  /\ sv.generated = (newID # "")
           /\ fail => sv.err = ErrTransport
           /\ jar' \in Receive(jar, sv.attached, sv.cookie)
           /\ remote' = sv.remote
           /\ session' = [session EXCEPT ![r] = sv.session]
           /\ saved' = IF sv.err = NoErr /\ sv.sets # <<>>
                        THEN [ok |-> TRUE, ID |-> sv.session.ID,
                              Values |-> sv.session.Values,
                              value |-> sv.cookie.Value]
                        ELSE Standing(saved, remote, sv.remote)
           /\ res' = [NoRes EXCEPT !.op = "Save", !.r = r, !.fail = fail,
                                   !.err = sv.err,
                                   !.sets = sv.sets, !.dels = sv.dels,
                                   !.attached = sv.attached,
                                   !.setCookie = IF sv.attached THEN sv.cookie
                                                 ELSE NoCookie,
                                   !.generated = sv.generated]
    /\ UNCHANGED <<now, maxLength, Options, Codecs, open, used>>
    /\ UNCHANGED calls

Delete(r, fail) ==
    /\ open[r]
    /\ LET d == DeleteResult(remote, session[r], fail)
       IN  /\ remote' = d.remote
           /\ session' = [session EXCEPT ![r] = d.session]
           /\ jar' \in Receive(jar, d.attached, d.cookie)
           /\ saved' = Standing(saved, remote, d.remote)
           /\ res' = [NoRes EXCEPT !.op = "Delete", !.r = r, !.fail = fail,
                                   !.err = d.err,
                                   !.again = (res.op = "Delete" /\ res.err = NoErr),
                                   !.dels = <<Key(session[r].ID)>>,
                                   !.attached = d.attached,
                                   !.setCookie = d.cookie]
    /\ UNCHANGED <<now, maxLength, Options, Codecs, open, used>>
    /\ UNCHANGED calls

Store(id, data, fail) ==
    /\ LET st == StoreResult(remote, id, data, maxLength, now, fail)
       IN  /\ fail => st.err = ErrTransport
           /\ remote' = st.remote
           /\ saved' = Standing(saved, remote, st.remote)
           /\ res' = [NoRes EXCEPT !.op = "Store", !.fail = fail,
                                   !.err = st.err, !.sets = st.sets]
    /\ UNCHANGED <<now, maxLength, Options, Codecs, open, session, jar,
                   used>>
    /\ UNCHANGED calls

\* the application writes session.Values[k] = x
Mutate(r, k, x) ==
    /\ used < MaxCalls
    /\ used' = used + 1
    /\ open[r]
    /\ session' = [session EXCEPT ![r].Values = (k :> x) @@ @]
    /\ res' = NoRes
    /\ UNCHANGED <<now, remote, maxLength, Options, Codecs, open, jar, saved>>
    /\ UNCHANGED calls

\* the application writes session.Options.MaxAge = m
SetSessionMaxAge(r, m) ==
    /\ used < MaxCalls
    /\ used' = used + 1
    /\ open[r]
    /\ session' = [session EXCEPT ![r].Options.MaxAge = m]
    /\ res' = NoRes
    /\ UNCHANGED <<now, remote, maxLength, Options, Codecs, open, jar, saved>>
    /\ UNCHANGED calls

SetMaxLength(l) ==
    /\ used < MaxCalls
    /\ used' = used + 1
    /\ maxLength' = IF l >= 0 THEN l ELSE maxLength
    /\ res' = NoRes
    /\ UNCHANGED <<now, remote, Options, Codecs, open, session, jar, saved>>
    /\ UNCHANGED calls

\* mutant: the codecs are left with the max-age they had
SetMaxAge_OptionsOnly(v) ==
    /\ used < MaxCalls
    /\ used' = used + 1
    /\ Options' = [Options EXCEPT !.MaxAge = v]
    /\ res' = NoRes
    /\ UNCHANGED <<now, remote, maxLength, Codecs, open, session, jar, saved>>
    /\ UNCHANGED calls

\* mutant: sessions hold the store's *sessions.Options itself, not a copy
SetMaxAge_SharedOptions(v) ==
    /\ used < MaxCalls
    /\ used' = used + 1
    /\ Options' = [Options EXCEPT !.MaxAge = v]
    /\ Codecs' = [i \in DOMAIN Codecs |-> [Codecs[i] EXCEPT !.maxAge = v]]
    /\ session' = [r \in DOMAIN session |->
                     IF open[r] THEN [session[r] EXCEPT !.Options.MaxAge = v]
                     ELSE session[r]]
    /\ res' = NoRes
    /\ UNCHANGED <<now, remote, maxLength, open, jar, saved>>
    /\ UNCHANGED calls

SetMaxAge(v) ==
    /\ used < MaxCalls
    /\ used' = used + 1
    /\ Options' = [Options EXCEPT !.MaxAge = v]
    /\ Codecs' = [i \in DOMAIN Codecs |-> [Codecs[i] EXCEPT !.maxAge = v]]
    /\ res' = NoRes
    /\ UNCHANGED <<now, remote, maxLength, open, session, jar, saved>>
    /\ UNCHANGED calls

\* a second passes; redis expires the keys whose time has come
Tick ==
    /\ now < MaxTime
    /\ now' = now + 1
    /\ remote' = Expire(remote, now + 1)
    /\ saved' = Standing(saved, remote, Expire(remote, now + 1))
    /\ res' = NoRes
    /\ UNCHANGED <<maxLength, Options, Codecs, open, session, jar, used>>
    /\ UNCHANGED calls

Next ==
    \/ \E r \in Reqs, c \in Inbound, fail \in BOOLEAN : New(r, c, fail)
    \/ \E r \in Reqs, newID \in FreshIDs \cup {""}, fail \in BOOLEAN :
          Save(r, newID, fail)
    \/ \E r \in Reqs, fail \in BOOLEAN : Delete(r, fail)
    \/ \E id \in StoreIDs, data \in StoreArgs, fail \in BOOLEAN : Store(id, data, fail)
    \/ \E r \in Reqs, a \in MutateArgs : Mutate(r, a[1], a[2])
    \/ \E r \in Reqs, m \in SessionMaxAges : SetSessionMaxAge(r, m)
    \/ \E l \in SetMaxLengthArgs : SetMaxLength(l)
    \/ \E v \in SetMaxAgeArgs : SetMaxAge(v)
    \/ Tick

Spec == Init /\ [][Next]_vars

\* ------------------------------------------------------ SetMaxAge in steps
\* SetMaxAge takes no lock: the write of Options.MaxAge and each codec's
\* MaxAge(v) are separate steps, and the requests of other goroutines run
\* between them. setting.next is the index of the codec the loop is at, 0
\* when no call is in progress.
SetMaxAgeBegin(v) ==
    /\ setting = NotSetting
    /\ used < MaxCalls
    /\ used' = used + 1
    /\ Options' = [Options EXCEPT !.MaxAge = v]
    /\ setting' = [v |-> v, next |-> 1]
    /\ res' = NoRes
    /\ UNCHANGED <<now, remote, maxLength, Codecs, open, session, jar, saved,
                   pc, hist>>

SetMaxAgeStep ==
    /\ setting.next # 0
    /\ IF setting.next <= Len(Codecs)
       THEN /\ Codecs' = [Codecs EXCEPT ![setting.next].maxAge = setting.v]
            /\ setting' = [setting EXCEPT !.next = @ + 1]
       ELSE /\ setting' = NotSetting
            /\ UNCHANGED Codecs
    /\ res' = NoRes
    /\ UNCHANGED <<now, remote, maxLength, Options, open, session, jar, used,
                   saved, pc, hist>>

NextSetMaxAge ==
    \/ \E r \in Reqs, c \in Inbound : New(r, c, FALSE)
    \/ \E r \in Reqs, newID \in FreshIDs \cup {""} : Save(r, newID, FALSE)
    \/ \E v \in SetMaxAgeArgs : SetMaxAgeBegin(v)
    \/ SetMaxAgeStep
    \/ Tick

SpecSetMaxAge == Init /\ [][NextSetMaxAge]_vars

\* ------------------------------------------- two sessions, their options
OptionsReqs == {"r1", "r2"}

InitOptions ==
    /\ now = 0
    /\ remote = [k \in {Key(id) : id \in IDs} |-> Absent]
    /\ maxLength = defaultMaxLength
    /\ Options = [Path |-> "/", MaxAge |-> sessionExpire]
    /\ Codecs = CodecsFromPairs(1)
    /\ open = [r \in OptionsReqs |-> FALSE]
    /\ session = [r \in OptionsReqs |-> BlankSession]
    /\ jar = {}
    /\ res = NoRes
    /\ used = 0
    /\ saved = NoSaved
    /\ pc = [r \in OptionsReqs |-> "idle"]
    /\ setting = NotSetting
    /\ hist = NoHist

NextOptions ==
    \/ \E r \in OptionsReqs, c \in Inbound : New(r, c, FALSE)
    \/ \E r \in OptionsReqs, newID \in FreshIDs \cup {""} : Save(r, newID, FALSE)
    \/ \E r \in OptionsReqs, m \in SessionMaxAges : SetSessionMaxAge(r, m)
    \/ \E v \in SetMaxAgeArgs : SetMaxAge(v)
    \/ Tick

SpecOptions == InitOptions /\ [][NextOptions]_vars

\* --------------------------------------------------------- Store and Load
Load(id, dest, fail) ==
    /\ LET ld == LoadResult(remote, id, dest, fail)
       IN  res' = [NoRes EXCEPT !.op = "Load", !.fail = fail, !.err = ld.err,
                                !.gets = <<Key(id)>>, !.found = ld.found,
                                !.given = dest, !.dest = ld.dest]
    /\ UNCHANGED <<now, remote, maxLength, Options, Codecs, open, session, jar,
                   used, saved>>
    /\ UNCHANGED calls

\* what Store is given, and the destinations Load is given: none, an empty
\* map, a map that holds a member already
KVArgs == StoreArgs \cup {("b" :> GoStr(0))}
Dests == {NilDest, Dest(EmptyData), Dest(("b" :> GoInt(2)))}

NextKV ==
    \/ \E id \in StoreIDs, data \in KVArgs, fail \in BOOLEAN : Store(id, data, fail)
    \/ \E id \in IDs, dest \in Dests, fail \in BOOLEAN : Load(id, dest, fail)
    \/ \E l \in SetMaxLengthArgs : SetMaxLength(l)
    \/ \E r \in Reqs, c \in Inbound : New(r, c, FALSE)
    \/ \E r \in Reqs, newID \in FreshIDs \cup {""} : Save(r, newID, FALSE)
    \/ Tick

SpecKV == Init /\ [][NextKV]_vars

\* ------------------------------------------- two requests, Save in steps
\* Two requests are handled at once, each with a session of its own.  Save
\* runs in three steps, split where it talks to redis: what it does before
\* (lines 263-277), the redis command (264 or 278), what it does after
\* (267 or 281-286).  No redis command fails here.
RaceReqs == {"r1", "r2"}

\* The cookie of a session that is gone: what an earlier request's Save
\* set on the response, at time 0, for a new session whose record has been
\* deleted since, while the client kept the cookie.
StaleValue ==
    LET opts == [Path |-> "/", MaxAge |-> sessionExpire]
        fresh == NewSession(NoCookie, [k \in {Key(id) : id \in IDs} |-> Absent],
                            opts, CodecsFromPairs(1), 0, FALSE).session
    IN  SaveResult([k \in {Key(id) : id \in IDs} |-> Absent], fresh,
                   defaultMaxLength, CodecsFromPairs(1), 0, "ID1", FALSE).cookie.Value

\* the store as constructed, the client holding no cookie or a stale one
InitRace ==
    /\ now = 0
    /\ remote = [k \in {Key(id) : id \in IDs} |-> Absent]
    /\ maxLength = defaultMaxLength
    /\ Options = [Path |-> "/", MaxAge |-> sessionExpire]
    /\ Codecs = CodecsFromPairs(1)
    /\ open = [r \in RaceReqs |-> FALSE]
    /\ session = [r \in RaceReqs |-> BlankSession]
    /\ jar \in {{}, {StaleValue}}
    /\ res = NoRes
    /\ used = 0
    /\ saved = NoSaved
    /\ pc = [r \in RaceReqs |-> "idle"]
    /\ setting = NotSetting
    /\ hist = NoHist

\* f without its value at r
Without(f, r) == [x \in DOMAIN f \ {r} |-> f[x]]

\* A request calls New once, before its Save; once every Save has been
\* begun, r stands for a later request, which calls New to see what is left.
RaceNew(r, c) ==
    /\ pc[r] = "idle"
    /\ ~open[r] \/ hist.begun = MaxSaves
    /\ New(r, c, FALSE)

RaceMutate(r) == pc[r] = "idle" /\ Mutate(r, AKey, GoInt(1))

\* lines 263-277: the branch is chosen, the ID generated, created_time stamped
SaveBegin(r, newID) ==
    /\ open[r] /\ pc[r] = "idle"
    /\ hist.begun < MaxSaves
    /\ LET s == session[r]
           s2 == IF MarkedForDeletion(s) THEN s ELSE Prepare(s, newID, now)
       IN  /\ (~MarkedForDeletion(s) /\ s.ID = "") = (newID # "")
           /\ session' = [session EXCEPT ![r] = s2]
           /\ hist' = [hist EXCEPT
                  !.stamped = IF s2.Values # s.Values THEN @ \cup {r} ELSE @ \ {r},
                  !.written = Without(@, r),
                  !.issued = Without(@, r),
                  !.begun = @ + 1]
    /\ pc' = [pc EXCEPT ![r] = "begun"]
    /\ res' = NoRes
    /\ UNCHANGED <<now, remote, maxLength, Options, Codecs, open, jar, used,
                   saved, setting>>

\* line 264 or 278: s.delete, or s.save with its serialization, size check
\* and set
SaveRemote(r) ==
    /\ pc[r] = "begun"
    /\ LET s == session[r]
           d == delete(remote, s, FALSE)
           sv == save(remote, s, maxLength, now, FALSE)
       IN  IF MarkedForDeletion(s)
           THEN /\ remote' = d.remote
                /\ pc' = [pc EXCEPT ![r] = "stored"]
                /\ res' = NoRes
                /\ hist' = hist
           ELSE IF sv.err # NoErr
           THEN /\ remote' = remote
                /\ pc' = [pc EXCEPT ![r] = "idle"]
                /\ res' = [NoRes EXCEPT !.op = "Save", !.r = r, !.err = sv.err]
                /\ hist' = hist
           ELSE /\ remote' = sv.remote
                /\ pc' = [pc EXCEPT ![r] = "stored"]
                /\ res' = NoRes
                /\ hist' = [hist EXCEPT !.lastSet = r,
                                        !.written = (r :> sv.sets[1]) @@ @]
    /\ UNCHANGED <<now, maxLength, Options, Codecs, open, session, jar, used,
                   saved, setting>>

\* line 267 or 281-286: the envelope is encoded and the cookie set
SaveCookie(r) ==
    /\ pc[r] = "stored"
    /\ LET s == session[r]
           enc == EncodeMulti(CookieName,
                              SessionInfo(s.ID, Lookup(s.Values, CreatedTimeKey)),
                              Codecs, now)
           err == IF MarkedForDeletion(s) THEN NoErr ELSE enc.err
           cookie == IF MarkedForDeletion(s)
                     THEN NewCookie(CookieName, <<>>, s.Options)
                     ELSE NewCookie(CookieName, enc.value, s.Options)
       IN  /\ jar' \in Receive(jar, err = NoErr, cookie)
           /\ res' = [NoRes EXCEPT !.op = "Save", !.r = r, !.err = err,
                                   !.attached = (err = NoErr),
                                   !.setCookie = IF err = NoErr THEN cookie
                                                 ELSE NoCookie]
           /\ hist' = IF err = NoErr /\ ~MarkedForDeletion(s)
                      THEN [hist EXCEPT !.issued = (r :> cookie.Value) @@ @]
                      ELSE hist
    /\ pc' = [pc EXCEPT ![r] = "idle"]
    /\ UNCHANGED <<now, remote, maxLength, Options, Codecs, open, session, used,
                   saved, setting>>

NextRace ==
    \/ \E r \in RaceReqs, c \in Inbound : RaceNew(r, c)
    \/ \E r \in RaceReqs : RaceMutate(r)
    \/ \E r \in RaceReqs, newID \in FreshIDs \cup {""} : SaveBegin(r, newID)
    \/ \E r \in RaceReqs : SaveRemote(r)
    \/ \E r \in RaceReqs : SaveCookie(r)
    \/ Tick

SpecRace == InitRace /\ [][NextRace]_vars

\* ------------------------------------------------- cookies and their age
\* A token no codec of the store signed: forged, or signed under a key pair
\* that has been rotated out of s.Codecs.
ForgedCookie ==
    NewCookie(CookieName,
              <<[name |-> CookieName, key |-> "k0", ts |-> 0,
                 info |-> SessionInfo("ID1", Nil)]>>,
              [MaxAge |-> 0])

\* what SetMaxAge is called with: a negative max-age makes securecookie
\* reject every timestamp, 0 switches its age check off
CookieMaxAges == {-1, 0, 1}

\* SetMaxAge called while the client holds no cookie: every cookie the
\* client comes to hold is minted after the change
SetMaxAgeFirst(v) == jar = {} /\ SetMaxAge(v)

NextCookie ==
    \/ \E r \in Reqs, c \in Inbound \cup {ForgedCookie}, fail \in BOOLEAN :
          New(r, c, fail)
    \/ \E r \in Reqs, newID \in FreshIDs \cup {""}, fail \in BOOLEAN :
          Save(r, newID, fail)
    \/ \E v \in CookieMaxAges : SetMaxAgeFirst(v)
    \/ Tick

SpecCookie == Init /\ [][NextCookie]_vars

\* ================================================================== claims
\* the envelope of the cookie the last New was given, as the codecs decode it
Envelope == DecodeMulti(CookieName, res.cookie.Value, Codecs, now)

\* the record under the key of that envelope
EnvelopeRecord == remote[Key(Envelope.info.ID)]

\* the last call was New, given a cookie that decodes, and its get went through
NewDecoded(r) ==
    /\ res.op = "New" /\ res.r = r
    /\ res.cookie.present /\ Envelope.err = NoErr
    /\ ~res.fail

\* the record has no created_time member, or one that differs from the
\* envelope's CreateTime
StoredCreatedTimeDiffers(d, info) ==
    \/ "created_time" \notin DOMAIN d
    \/ Unmarshal(d["created_time"]) # info.CreateTime

\* C1: New, given a cookie that decodes, finding a record whose created_time
\* differs from the envelope's (or is missing), returns isNew = true and an
\* empty payload.
C1_Freshness ==
    \A r \in Reqs :
        (/\ NewDecoded(r)
         /\ EnvelopeRecord.present
         /\ StoredCreatedTimeDiffers(EnvelopeRecord.data, Envelope.info))
        => (session[r].IsNew /\ session[r].Values = EmptyValues)

\* the last call was New, given the cookie of the Save that still stands
NewAfterSave(r) ==
    /\ res.op = "New" /\ res.r = r
    /\ saved.ok
    /\ res.cookie.present /\ res.cookie.Value = saved.value
    /\ ~res.fail

\* C2 as claimed: New, given the cookie of a successful Save whose record
\* still stands, returns no error, isNew = false and the payload that was saved.
C2_RoundTrip ==
    \A r \in Reqs :
        NewAfterSave(r)
        => (/\ res.err = NoErr
            /\ ~session[r].IsNew
            /\ session[r].Values = saved.Values)

\* what a value is after json.Marshal and json.Unmarshal
Widen(x) == IF x.t = "int" THEN GoFloat(x.v) ELSE x
Widened(Values) == [k \in DOMAIN Values |-> Widen(Values[k])]

\* C2 as amended: New, given the cookie of a successful Save whose record
\* still stands and which the codecs still accept, returns no error; it
\* returns isNew = false and the saved payload with its ints widened to
\* float64 when the saved created_time is not an int, and isNew = true with
\* an empty payload when it is.
C2_RoundTripWidened ==
    \A r \in Reqs :
        (NewAfterSave(r) /\ Envelope.err = NoErr)
        => (/\ res.err = NoErr
            /\ IF Widen(saved.Values[CreatedTimeKey]) = saved.Values[CreatedTimeKey]
               THEN ~session[r].IsNew /\ session[r].Values = Widened(saved.Values)
               ELSE session[r].IsNew /\ session[r].Values = EmptyValues)

C2_Witness ==
    \E r \in Reqs :
        /\ NewAfterSave(r) /\ Envelope.err = NoErr
        /\ ~session[r].IsNew
        /\ AKey \in DOMAIN saved.Values /\ saved.Values[AKey].t = "int"

\* the last call was a Save of a session with max-age > 0 that returned no error
SavedOK(r) ==
    /\ res.op = "Save" /\ res.r = r
    /\ res.err = NoErr
    /\ session[r].Options.MaxAge > 0

\* the envelope of the cookie the last call set on the response
IssuedEnvelope == DecodeMulti(CookieName, res.setCookie.Value, Codecs, now)

\* C3: a successful Save of a session with max-age m > 0 issues one set, on
\* keyPrefix+ID with the serialized payload and a time to live of m seconds,
\* and sets a cookie whose envelope has the session's ID and the created_time
\* of the written record; an ID generated by the Save is not empty.
C3_SaveWritesRecordAndCookie ==
    \A r \in Reqs :
        SavedOK(r)
        => (/\ Len(res.sets) = 1 /\ res.dels = <<>>
            /\ session[r].ID # ""
            /\ CreatedTimeKey \in DOMAIN session[r].Values
            /\ res.sets[1].key = Key(session[r].ID)
            /\ res.sets[1].b = Serialize(session[r].Values).b
            /\ res.sets[1].ttl = session[r].Options.MaxAge
            /\ remote[Key(session[r].ID)].present
            /\ remote[Key(session[r].ID)].data = res.sets[1].b
            /\ res.attached
            /\ IssuedEnvelope.err = NoErr
            /\ IssuedEnvelope.info.ID = session[r].ID
            /\ Marshal(IssuedEnvelope.info.CreateTime) = res.sets[1].b["created_time"])

C3_Witness == \E r \in Reqs : SavedOK(r) /\ res.generated

\* C4: a Save whose serialized payload is longer than a nonzero maxLength
\* returns the oversized-payload error, issues no set and leaves redis as it
\* was; with maxLength 0 no Save returns that error.
C4_SizeBound ==
    [][\A r \in Reqs :
        (res'.op = "Save" /\ res'.r = r /\ ~MarkedForDeletion(session[r]))
        => LET ser == Serialize(session'[r].Values)
           IN  /\ (ser.err = NoErr /\ maxLength # 0 /\ BytesLen(ser.b) > maxLength)
                  => (res'.err = ErrTooBig /\ res'.sets = <<>> /\ remote' = remote)
               /\ maxLength = 0 => res'.err # ErrTooBig]_vars

C4_Witness == res.op = "Save" /\ res.err = ErrTooBig

\* the last call was a Save of a session with max-age <= 0 whose delete went
\* through
SaveDeleted(r) ==
    /\ res.op = "Save" /\ res.r = r
    /\ session[r].Options.MaxAge <= 0
    /\ ~res.fail

C6_ZeroMeansDefault ==
    \A r \in Reqs :
        (/\ res.op = "Save" /\ res.r = r
         /\ session[r].Options.MaxAge = 0
         /\ res.err = NoErr)
        => (/\ Len(res.sets) = 1
            /\ res.sets[1].ttl = DefaultMaxAge
            /\ res.dels = <<>>
            /\ remote[Key(session[r].ID)].present
            /\ res.attached
            /\ res.setCookie.Value # <<>>)

\* the cookie Delete sets: an empty value and max-age -1
Cleared(c) == c.present /\ c.Value = <<>> /\ c.MaxAge = -1

\* C7 as claimed: every Delete sets the clearing cookie and empties the
\* payload, and returns the error of a failed delete.
C7_DeleteAlwaysClears ==
    \A r \in Reqs :
        (res.op = "Delete" /\ res.r = r)
        => (/\ res.attached /\ Cleared(res.setCookie)
            /\ session[r].Values = EmptyValues
            /\ res.fail => res.err = ErrTransport)

\* C7 as amended: a Delete whose remote delete succeeds sets the clearing
\* cookie and empties the payload; one whose remote delete fails returns the
\* error, sets no cookie and leaves the payload and redis as they were.
C7_DeleteClearsOnSuccess ==
    [][\A r \in Reqs :
        (res'.op = "Delete" /\ res'.r = r)
        => IF res'.fail
           THEN /\ res'.err = ErrTransport
                /\ ~res'.attached
                /\ session'[r] = session[r]
                /\ remote' = remote
           ELSE /\ res'.err = NoErr
                /\ res'.attached /\ Cleared(res'.setCookie)
                /\ session'[r].Values = EmptyValues
                /\ ~remote'[Key(session[r].ID)].present]_vars

C7_Witness ==
    \E r \in Reqs :
        /\ res.op = "Delete" /\ res.r = r /\ res.fail
        /\ session[r].Values # EmptyValues

\* C8: a Delete that follows a Delete of the same session, with no transport
\* failure, returns no error and leaves redis as the first Delete left it.
C8_DeleteIdempotent ==
    [][\A r \in Reqs :
        (/\ res.op = "Delete" /\ res.r = r /\ res.err = NoErr
         /\ res'.op = "Delete" /\ res'.r = r /\ res'.again /\ ~res'.fail)
        => (/\ res'.err = NoErr
            /\ remote' = remote
            /\ ~remote'[Key(session[r].ID)].present)]_vars

C8_Witness == res.op = "Delete" /\ res.again /\ ~res.fail /\ res.err = NoErr

\* New returned a new, empty session and no error
FreshSession(r) ==
    /\ session[r].IsNew
    /\ session[r].Values = EmptyValues
    /\ res.err = NoErr

\* C9: New on a request with no cookie, and New with a cookie that decodes
\* whose record is absent, return isNew = true, an empty payload and no error.
C9_NotFoundIsNoError ==
    \A r \in Reqs :
        /\ (res.op = "New" /\ res.r = r /\ ~res.cookie.present) => FreshSession(r)
        /\ (NewDecoded(r) /\ ~EnvelopeRecord.present) => FreshSession(r)

C9_Witness ==
    \E r \in Reqs :
        NewDecoded(r) /\ ~EnvelopeRecord.present /\ session[r].ID # ""

\* C10: when New has decoded the cookie and the get fails, New returns the
\* transport error and a session with isNew = true and an empty payload.
C10_LoadErrorReturned ==
    \A r \in Reqs :
        (res.op = "New" /\ res.r = r /\ res.fail)
        => (/\ res.err = ErrTransport
            /\ session[r].IsNew
            /\ session[r].Values = EmptyValues)

C10_Witness ==
    \E r \in Reqs :
        /\ res.op = "New" /\ res.r = r /\ res.fail
        /\ EnvelopeRecord.present

\* the last call was New, given a cookie that no codec decodes
DecodeFailed(r) ==
    /\ res.op = "New" /\ res.r = r
    /\ res.cookie.present /\ Envelope.err # NoErr

\* what New returns when the request has no cookie
NoCookieSession == NewSession(NoCookie, remote, Options, Codecs, now, FALSE)

\* C11 as claimed: New, given a cookie that fails to decode, returns the
\* session it returns without a cookie, asks redis nothing and reports what
\* it reports without a cookie: no error.
C11_DecodeFailureIsNoCookie ==
    \A r \in Reqs :
        DecodeFailed(r)
        => (/\ session[r] = NoCookieSession.session
            /\ res.gets = <<>>
            /\ res.err = NoCookieSession.err)

\* C11 as amended: New, given a cookie that fails to decode, returns the
\* session it returns without a cookie (empty ID, empty payload, isNew) and
\* asks redis nothing, but returns the decode error, where it returns no
\* error without a cookie.
C11_DecodeFailureReturnsError ==
    \A r \in Reqs :
        DecodeFailed(r)
        => (/\ session[r] = NoCookieSession.session
            /\ session[r].ID = "" /\ session[r].Values = EmptyValues
            /\ session[r].IsNew
            /\ res.gets = <<>>
            /\ res.err = Envelope.err
            /\ res.err # NoCookieSession.err)

C11_Witness ==
    \E r \in Reqs :
        /\ DecodeFailed(r) /\ res.err = ErrExpired
        /\ remote[Key(res.cookie.Value[1].info.ID)].present

\* SetMaxAge has returned (no other call of SpecCookie draws on the budget)
MaxAgeSet == used > 0

\* the last call was New, given a cookie a Save of this store minted
NewMinted(r) ==
    /\ res.op = "New" /\ res.r = r
    /\ res.cookie.present /\ res.cookie.Value # <<>>
    /\ res.cookie # ForgedCookie

\* the age of the cookie the last New was given
CookieAge == now - res.cookie.Value[1].ts

\* C12 as claimed: after SetMaxAge(v), Options.MaxAge and every codec's
\* max-age are v, and a cookie minted after the change is accepted by
\* decode only while its age is within v.
C12_MaxAgePropagation ==
    MaxAgeSet
    => (/\ \A i \in DOMAIN Codecs : Codecs[i].maxAge = Options.MaxAge
        /\ \A r \in Reqs :
              (NewMinted(r) /\ Envelope.err = NoErr)
              => CookieAge <= Options.MaxAge)

\* C12 as amended: after SetMaxAge(v), Options.MaxAge and every codec's
\* max-age are v; for v # 0 a cookie minted after the change is accepted by
\* decode exactly while its age is within v and is expired otherwise, and
\* for v = 0 it is accepted at every age.
C12_MaxAgePropagationUnlessZero ==
    MaxAgeSet
    => (/\ \A i \in DOMAIN Codecs : Codecs[i].maxAge = Options.MaxAge
        /\ \A r \in Reqs :
              (NewMinted(r) /\ Codecs # <<>>)
              => IF Options.MaxAge = 0 \/ CookieAge <= Options.MaxAge
                 THEN Envelope.err = NoErr
                 ELSE Envelope.err = ErrExpired /\ res.err = ErrExpired)

C12_Witness ==
    \E r \in Reqs :
        /\ MaxAgeSet /\ NewMinted(r)
        /\ res.err = ErrExpired

\* both requests have been through a Save that set a cookie, on one key
BothSaved ==
    /\ DOMAIN hist.issued = RaceReqs
    /\ \A r \in RaceReqs : pc[r] = "idle"
    /\ \A r, q \in RaceReqs : hist.written[r].key = hist.written[q].key

\* the envelope of the cookie r's Save set
IssuedTo(r) == DecodeMulti(CookieName, hist.issued[r], Codecs, now)

\* C13: once two requests have each saved a session of one ID, in whatever
\* order their steps ran, the record is the document of the request whose
\* set came last, and each request's cookie carries that request's ID and
\* the created_time of that request's own document.
C13_LastWriterWins ==
    BothSaved
    => (/\ remote[hist.written[hist.lastSet].key].present
        /\ remote[hist.written[hist.lastSet].key].data
              = hist.written[hist.lastSet].b
        /\ \A r \in RaceReqs :
              /\ IssuedTo(r).err = NoErr
              /\ Key(IssuedTo(r).info.ID) = hist.written[r].key
              /\ Marshal(IssuedTo(r).info.CreateTime)
                    = hist.written[r].b["created_time"])

C13_Witness ==
    /\ BothSaved
    /\ \E r \in RaceReqs :
          /\ r # hist.lastSet
          /\ hist.written[r].b # hist.written[hist.lastSet].b
          /\ DOMAIN hist.written[r].b # DOMAIN hist.written[hist.lastSet].b

\* both requests were given a session without created_time for the ID of
\* the cookie, and each Save stamped one of its own
StaleRace == BothSaved /\ hist.stamped = RaceReqs

\* the last call was New, after the race, given the cookie request q got
NewWithCookieOf(r, q) ==
    /\ res.op = "New" /\ res.r = r
    /\ res.cookie.present /\ res.cookie.Value = hist.issued[q]

\* New keeps the ID of a cookie that decodes, whatever it finds in redis
KeepsCookieID ==
    \A r \in RaceReqs :
        (res.op = "New" /\ res.r = r /\ res.cookie.present /\ Envelope.err = NoErr)
        => session[r].ID = Envelope.info.ID

\* New accepts exactly the cookies whose CreateTime is the record's created_time
AcceptsMatching ==
    \A r \in RaceReqs :
        (res.op = "New" /\ res.r = r /\ res.cookie.present /\ Envelope.err = NoErr
         /\ EnvelopeRecord.present)
        => (~session[r].IsNew
            <=> Lookup(DeserializeData(EnvelopeRecord.data), "created_time")
                   = Envelope.info.CreateTime)

\* C20 as claimed: New keeps the ID of a stale cookie, and after two
\* requests that presented it have both saved, a later New accepts exactly
\* the cookies whose CreateTime is the created_time of the record written
\* last and returns a new, empty session for the other request's cookie.
C20_StaleCookieRace ==
    /\ KeepsCookieID
    /\ StaleRace
       => (/\ AcceptsMatching
           /\ \A r, q \in RaceReqs :
                 (NewWithCookieOf(r, q) /\ q # hist.lastSet)
                 => (session[r].IsNew /\ session[r].Values = EmptyValues))

\* C20 as amended: as claimed, except that the other request's cookie gets
\* a new, empty session only when its created_time differs from that of the
\* record written last; when both Saves stamped the same second the other
\* request's cookie is accepted too, with the payload written last.
C20_StaleCookieRaceSameSecond ==
    /\ KeepsCookieID
    /\ StaleRace
       => (/\ AcceptsMatching
           /\ \A r, q \in RaceReqs :
                 (NewWithCookieOf(r, q) /\ q # hist.lastSet)
                 => IF hist.written[q].b["created_time"]
                          # hist.written[hist.lastSet].b["created_time"]
                    THEN session[r].IsNew /\ session[r].Values = EmptyValues
                    ELSE /\ ~session[r].IsNew
                         /\ session[r].Values
                               = Deserialize(hist.written[hist.lastSet].b,
                                             EmptyValues))

C20_Witness ==
    /\ StaleRace
    /\ \E r, q \in RaceReqs :
          /\ NewWithCookieOf(r, q) /\ q # hist.lastSet
          /\ ~session[r].IsNew
          /\ hist.written[q].b # hist.written[hist.lastSet].b

\* the record Load asked for
Loaded == remote[res.gets[1]]

\* what Load leaves in a usable destination when it finds the record: the
\* record's members as json.Unmarshal decodes them, and what it held besides
Received(doc, given) ==
    [n \in DOMAIN doc \cup DOMAIN given.data |->
        IF n \in DOMAIN doc THEN Unmarshal(doc[n]) ELSE given.data[n]]

\* C14: Load returns found = false and no error when the key is absent and
\* when the destination is nil, leaving the destination as it was; it returns
\* found = true exactly when the key is present and the destination usable,
\* and the destination then holds the record's payload, which right after a
\* Store of that key is the payload Store was given; a transport error of the
\* get is returned, with found = false.
C14_LoadFound ==
    /\ [](res.op = "Load"
          => /\ res.fail
                => (res.err = ErrTransport /\ ~res.found /\ res.dest = res.given)
             /\ (~res.fail /\ (~Loaded.present \/ ~res.given.usable))
                => (res.err = NoErr /\ ~res.found /\ res.dest = res.given)
             /\ res.found
                <=> (~res.fail /\ Loaded.present /\ res.given.usable)
             /\ res.found
                => (res.err = NoErr
                    /\ res.dest = Dest(Received(Loaded.data, res.given))))
    /\ [][(/\ res.op = "Store" /\ res.err = NoErr
           /\ res'.op = "Load" /\ res'.gets[1] = res.sets[1].key
           /\ ~res'.fail /\ res'.given.usable)
          => (/\ res'.found
              /\ res'.dest = Dest(Received(res.sets[1].b, res'.given)))]_vars

C14_Witness ==
    /\ res.op = "Load" /\ res.found
    /\ res.given.data # EmptyData
    /\ DOMAIN res.dest.data # DOMAIN res.given.data

\* the errors of save that reject the payload itself
ValidationErrs == {ErrTooBig, ErrNonStringKey}

\* a Save of request r that save rejected with a validation error
Rejects(r) == res'.op = "Save" /\ res'.r = r /\ res'.err \in ValidationErrs

\* C15 as stated: a Save rejected with a validation error leaves the
\* session's payload exactly as it was before the call, created_time
\* included, and writes nothing to the remote store.
C15_RejectedSaveKeepsPayload ==
    [][\A r \in Reqs :
        Rejects(r)
        => (/\ session'[r].Values = session[r].Values
            /\ res'.sets = <<>> /\ remote' = remote)]_vars

\* C15 (amended): a Save rejected with a validation error writes nothing to
\* the remote store and sets no cookie; the payload is as it was before the
\* call except that a payload without a created_time entry has gained one,
\* stamped with the time of the call.
C15_RejectedSaveOnlyStamps ==
    [][\A r \in Reqs :
        Rejects(r)
        => (/\ session'[r].Values
                 = IF CreatedTimeKey \in DOMAIN session[r].Values
                   THEN session[r].Values
                   ELSE (CreatedTimeKey :> Stamp(now)) @@ session[r].Values
            /\ res'.sets = <<>> /\ remote' = remote
            /\ ~res'.attached /\ jar' = jar)]_vars

C15_Witness ==
    /\ res.op = "Save" /\ res.err \in ValidationErrs /\ res.generated
    /\ CreatedTimeKey \in DOMAIN session[res.r].Values
    /\ session[res.r].Values[CreatedTimeKey] = Stamp(now)

\* a Save of a session that is kept (max-age > 0) has returned
KeepingSave(r) ==
    res.op = "Save" /\ res.r = r /\ session[r].Options.MaxAge > 0

\* C16: after a Save with max-age > 0 a cookie is attached exactly when Save
\* returned no error, and then serialization, the size check, the remote set
\* and the envelope encoding all succeeded; the first of these to fail gives
\* the error Save returns, and the response carries no cookie; a cookie that
\* was attached is not empty and names a record that is present and carries
\* the created_time of the cookie's envelope.
C16_NoCookieOnFailure ==
    \A r \in Reqs :
        KeepingSave(r)
        => LET ser == Serialize(session[r].Values)
               big == ser.err = NoErr /\ maxLength # 0
                      /\ BytesLen(ser.b) > maxLength
               sent == ser.err = NoErr /\ ~big
               rec == remote[Key(session[r].ID)]
           IN  /\ res.attached <=> res.err = NoErr
               /\ ~res.attached => res.setCookie = NoCookie
               /\ ser.err # NoErr => (res.err = ser.err /\ res.sets = <<>>)
               /\ big => (res.err = ErrTooBig /\ res.sets = <<>>)
               /\ (sent /\ res.fail) => res.err = ErrTransport
               /\ (sent /\ ~res.fail /\ Codecs = <<>>) => res.err = ErrNoCodecs
               /\ res.attached
                  => (/\ sent /\ ~res.fail /\ Codecs # <<>>
                      /\ res.setCookie.Value # <<>>
                      /\ Len(res.sets) = 1
                      /\ rec.present /\ rec.data = ser.b
                      /\ IssuedEnvelope.err = NoErr
                      /\ IssuedEnvelope.info.ID = session[r].ID
                      /\ Marshal(IssuedEnvelope.info.CreateTime)
                           = rec.data["created_time"])

C16_Witness ==
    /\ res.op = "Save" /\ res.err = ErrNoCodecs /\ ~res.attached
    /\ Len(res.sets) = 1 /\ remote[res.sets[1].key].present
    /\ jar = {}

\* a New or a Save runs while a SetMaxAge call is between two of its steps
DuringSetMaxAge ==
    /\ setting.next # 0 /\ setting' = setting
    /\ res'.op \in {"New", "Save"}

\* C17: no New or Save that runs while SetMaxAge(v) is in progress finds the
\* store's Options.MaxAge and the max-ages its codecs enforce to be other
\* than one and the same value.
C17_SetMaxAgeAtomic ==
    [][DuringSetMaxAge
       => \A i \in DOMAIN Codecs : Codecs[i].maxAge = Options.MaxAge]_vars

\* the options of every session but r's are left as they were
OthersKeepOptions(r) ==
    \A q \in DOMAIN session \ {r} : session'[q].Options = session[q].Options

\* C18: the session New returns carries the store's default options as they
\* are at that moment; a step that changes one session's options changes
\* neither the store's defaults nor the options of any other session; a step
\* that changes the store's defaults (SetMaxAge) changes the options of no
\* session New has already returned.
C18_PrivateOptions ==
    [][\A r \in DOMAIN session :
        /\ (res'.op = "New" /\ res'.r = r)
           => (/\ session'[r].Options = Options
               /\ Options' = Options /\ OthersKeepOptions(r))
        /\ session'[r].Options # session[r].Options
           => (Options' = Options /\ OthersKeepOptions(r))
        /\ Options' # Options
           => session'[r].Options = session[r].Options]_vars

\* two sessions returned by New on either side of a SetMaxAge: the earlier
\* one keeps the default it copied, the later one has the new default
C18_Witness ==
    /\ open["r1"] /\ open["r2"]
    /\ Options.MaxAge # sessionExpire
    /\ session["r1"].Options.MaxAge = sessionExpire
    /\ session["r2"].Options = Options

\* the envelope a cookie value carries
EnvelopeOf(v) == v[1].info

\* New, given the cookie value v now, finds the session (isNew = false)
AcceptedNow(v) ==
    LET n == NewSession(NewCookie(CookieName, v, [MaxAge |-> 0]), remote',
                        Options, Codecs, now, FALSE)
    IN  n.err = NoErr /\ ~n.session.IsNew

\* request r, whose New has just found its session from a cookie, saves it
\* again, with no error; the payload New loaded has the created_time entry
\* that every record written by Save has
ReSaves(r) ==
    /\ res.op = "New" /\ res.r = r /\ res.err = NoErr /\ ~session[r].IsNew
    /\ CreatedTimeKey \in DOMAIN session[r].Values
    /\ res'.op = "Save" /\ res'.r = r /\ res'.err = NoErr
    /\ ~MarkedForDeletion(session[r])

\* C19: a Save that keeps the session changes neither an ID that is not
\* empty nor a created_time entry the payload already has; so when a request
\* whose session New found from a cookie saves it again, the cookie it issues
\* carries the envelope of the cookie it came with, and New still finds the
\* session when given that earlier cookie after the re-save.
C19_EnvelopeStable ==
    [][\A r \in Reqs :
        /\ (res'.op = "Save" /\ res'.r = r /\ ~MarkedForDeletion(session[r]))
           => (/\ session[r].ID # "" => session'[r].ID = session[r].ID
               /\ CreatedTimeKey \in DOMAIN session[r].Values
                  => session'[r].Values[CreatedTimeKey]
                       = session[r].Values[CreatedTimeKey])
        /\ ReSaves(r)
           => (/\ res'.attached
               /\ EnvelopeOf(res'.setCookie.Value) = EnvelopeOf(res.cookie.Value)
               /\ AcceptedNow(res.cookie.Value)
               /\ AcceptedNow(res'.setCookie.Value))]_vars

\* after a re-save the client still holds a cookie of an earlier Save, which
\* is not the cookie just issued, carries its envelope and opens the session
C19_Witness ==
    /\ res.op = "Save" /\ res.attached /\ ~res.generated
    /\ res.setCookie.Value # <<>>
    /\ \E v \in jar :
          /\ v # <<>> /\ v # res.setCookie.Value
          /\ EnvelopeOf(v) = EnvelopeOf(res.setCookie.Value)
          /\ LET n == NewSession(NewCookie(CookieName, v, [MaxAge |-> 0]),
                                 remote, Options, Codecs, now, FALSE)
             IN  n.err = NoErr /\ ~n.session.IsNew

====
